---- MODULE Spec2Model ----
(***************************************************************************)
(* A model of the demand-paging simulator of main.c: the fault dispatcher, *)
(* the frame table, the four replacement policies (rand, fifo, 2fifo,      *)
(* custom) and the intrusive linked lists they keep over the frame table.  *)
(*                                                                         *)
(* A pointer to an f_node is the index of the node in frame_table, or      *)
(* NULL.  A handler is an operator from a record of the program's globals  *)
(* to the record after the call; the record's field halt is "run" while    *)
(* the process lives, "segv" once it has dereferenced NULL and "exit" once *)
(* it has called exit(1).  The field log collects, for the handler call in *)
(* progress, the calls it made to evict, disk_write and disk_read.         *)
(***************************************************************************)
EXTENDS Integers, Sequences, FiniteSets, TLC

\* Bounds of the model.
NPages == 4
MaxFrames == 3
MaxFaults == 6

\* <sys/mman.h> protection bits as main.c uses them, and the null pointer.
PROT_NONE == 0
PROT_READ == 1
PROT_WRITE == 2
NULL == 0 - 1

Policies == {"RAND", "FIFO", "TWO_FIFO", "CUSTOM"}

\* bits & b, b | bits and bits & ~b for a single bit b.
HasBit(bits, b) == (bits \div b) % 2 = 1
BitOr(bits, b) == IF HasBit(bits, b) THEN bits ELSE bits + b
BitClear(bits, b) == IF HasBit(bits, b) THEN bits - b ELSE bits

VARIABLES
    args,           \* struct args: npages, nframes
    fault_policy,   \* enum policy_e
    FIRST_L,        \* capacity of the first-chance list
    SECOND_L,       \* capacity of the second-chance list
    frame_table,    \* f_node per frame: page, bits, free, f_list, next, prev
    pt,             \* the page table: per page, frame and bits
    stats,          \* struct stats
    fifo_head, fifo_tail,
    ff_head, ff_tail, sf_head, sf_tail,
    f_entries, s_entries,
    chance,
    halt,           \* "run", "segv" (NULL dereferenced) or "exit" (exit(1))
    log,            \* the evict / disk_write / disk_read calls of the last fault
    fault,          \* the last fault: its page and the entry get_entry returned
    loaded,         \* per page, the value of disk_reads when it was last read in (0: never)
    disk,           \* per page, the content of its block of the disk
    physmem,        \* per frame, the content of the frame
    flat,           \* per page, the content last stored to it by the program
    access,         \* the access of the program that is being retried, if any
    golden          \* how far the run is the sequence write 0, write 1, write 2

vars == <<args, fault_policy, FIRST_L, SECOND_L, frame_table, pt, stats,
          fifo_head, fifo_tail, ff_head, ff_tail, sf_head, sf_tail,
          f_entries, s_entries, chance, halt, log, fault, loaded,
          disk, physmem, flat, access, golden>>

Frames == 0 .. (args.nframes - 1)
Pages == 0 .. (args.npages - 1)

\* ------------------------------------------------------------------------
\* The globals as one record, and the ways a call ends the process.

Globals ==
    [frame_table |-> frame_table, pt |-> pt, stats |-> stats,
     fifo_head |-> fifo_head, fifo_tail |-> fifo_tail,
     ff_head |-> ff_head, ff_tail |-> ff_tail,
     sf_head |-> sf_head, sf_tail |-> sf_tail,
     f_entries |-> f_entries, s_entries |-> s_entries,
     chance |-> chance, halt |-> "run", log |-> <<>>,
     disk |-> disk, physmem |-> physmem]

Segv(s) == IF s.halt = "run" THEN [s EXCEPT !.halt = "segv"] ELSE s
Exit(s) == IF s.halt = "run" THEN [s EXCEPT !.halt = "exit"] ELSE s

\* Sequencing: the statements F that follow a call are not executed once the
\* process has halted.  Then2 is Then for a call that returns a value: r is
\* [s |-> the globals after the call, ret |-> the value returned].
Then(s, F(_)) == IF s.halt # "run" THEN s ELSE F(s)
Then2(r, F(_, _)) == IF r.s.halt # "run" THEN r.s ELSE F(r.s, r.ret)

\* ------------------------------------------------------------------------
\* The page table and the disk (page_table.h, disk.h).

page_table_set_entry(s, page, frame, bits) ==
    [s EXCEPT !.pt[page] = [frame |-> frame, bits |-> bits]]

\* The content of a page is <<page, version>>: version 0 is what the disk
\* holds at the start, and each store of the program makes the next version.
\* disk_read copies the block of the page into the frame, disk_write copies
\* the frame into the block of the page.
disk_read(s, page, frame) ==
    [s EXCEPT !.log = Append(@, [op |-> "disk_read", page |-> page, frame |-> frame]),
              !.physmem[frame] = s.disk[page]]

disk_write(s, page, frame) ==
    [s EXCEPT !.log = Append(@, [op |-> "disk_write", page |-> page, frame |-> frame]),
              !.disk[page] = s.physmem[frame]]

\* ------------------------------------------------------------------------
\* evict: write back if the frame's bits have PROT_WRITE, invalidate, count.
\* The call itself is logged with the page and bits the frame table holds.

\* evict that leaves the page-table entry of the evicted page as it was.
evict_keep_entry(s, f_num) ==
    LET page == s.frame_table[f_num].page
        bits == s.frame_table[f_num].bits
    IN  Then([s EXCEPT !.log = Append(@, [op |-> "evict", page |-> page,
                                            frame |-> f_num, bits |-> bits])],
             LAMBDA s0 :
        Then(IF HasBit(bits, PROT_WRITE)
             THEN [disk_write(s0, page, f_num) EXCEPT !.stats.disk_writes = @ + 1]
             ELSE s0,
             LAMBDA s1 :
             [s1 EXCEPT !.frame_table[f_num].bits = PROT_NONE,
                        !.stats.evictions = @ + 1]))

\* evict that tests PROT_READ where the code tests PROT_WRITE.
evict_if_read(s, f_num) ==
    LET page == s.frame_table[f_num].page
        bits == s.frame_table[f_num].bits
    IN  Then([s EXCEPT !.log = Append(@, [op |-> "evict", page |-> page,
                                            frame |-> f_num, bits |-> bits])],
             LAMBDA s0 :
        Then(IF HasBit(bits, PROT_READ)
             THEN [disk_write(s0, page, f_num) EXCEPT !.stats.disk_writes = @ + 1]
             ELSE s0,
             LAMBDA s1 :
        Then(page_table_set_entry(s1, page, f_num, PROT_NONE),
             LAMBDA s2 :
             [s2 EXCEPT !.frame_table[f_num].bits = PROT_NONE,
                        !.stats.evictions = @ + 1])))

\* evict without ++stats.evictions.
evict_uncounted(s, f_num) ==
    LET page == s.frame_table[f_num].page
        bits == s.frame_table[f_num].bits
    IN  Then([s EXCEPT !.log = Append(@, [op |-> "evict", page |-> page,
                                            frame |-> f_num, bits |-> bits])],
             LAMBDA s0 :
        Then(IF HasBit(bits, PROT_WRITE)
             THEN [disk_write(s0, page, f_num) EXCEPT !.stats.disk_writes = @ + 1]
             ELSE s0,
             LAMBDA s1 :
        Then(page_table_set_entry(s1, page, f_num, PROT_NONE),
             LAMBDA s2 :
             [s2 EXCEPT !.frame_table[f_num].bits = PROT_NONE])))

\* evict that never writes the frame back.
evict_no_flush(s, f_num) ==
    LET page == s.frame_table[f_num].page
        bits == s.frame_table[f_num].bits
    IN  Then([s EXCEPT !.log = Append(@, [op |-> "evict", page |-> page,
                                            frame |-> f_num, bits |-> bits])],
             LAMBDA s0 :
        Then(page_table_set_entry(s0, page, f_num, PROT_NONE),
             LAMBDA s2 :
             [s2 EXCEPT !.frame_table[f_num].bits = PROT_NONE,
                        !.stats.evictions = @ + 1]))

evict(s, f_num) ==
    LET page == s.frame_table[f_num].page
        bits == s.frame_table[f_num].bits
    IN  Then([s EXCEPT !.log = Append(@, [op |-> "evict", page |-> page,
                                            frame |-> f_num, bits |-> bits])],
             LAMBDA s0 :
        Then(IF HasBit(bits, PROT_WRITE)
             THEN [disk_write(s0, page, f_num) EXCEPT !.stats.disk_writes = @ + 1]
             ELSE s0,
             LAMBDA s1 :
        Then(page_table_set_entry(s1, page, f_num, PROT_NONE),
             LAMBDA s2 :
             [s2 EXCEPT !.frame_table[f_num].bits = PROT_NONE,
                        !.stats.evictions = @ + 1])))

\* find_free_frame that scans from the last frame down.
find_free_frame_highest(s) ==
    IF \E i \in Frames : s.frame_table[i].free = 0
    THEN CHOOSE i \in Frames :
            /\ s.frame_table[i].free = 0
            /\ \A j \in Frames : j > i => s.frame_table[j].free # 0
    ELSE 0 - 1

\* find_free_frame: the lowest index whose free flag is 0, or -1.
find_free_frame(s) ==
    IF \E i \in Frames : s.frame_table[i].free = 0
    THEN CHOOSE i \in Frames :
            /\ s.frame_table[i].free = 0
            /\ \A j \in Frames : j < i => s.frame_table[j].free # 0
    ELSE 0 - 1

\* ------------------------------------------------------------------------
\* The FIFO list (fifo and custom).  next points towards the head (oldest).

\* fifo_insert without the test for a node that is already in the list.
fifo_insert_unchecked(s, frame_index) ==
    IF s.fifo_tail = NULL
    THEN [s EXCEPT !.fifo_head = frame_index,
                   !.fifo_tail = frame_index,
                   !.frame_table[frame_index].f_list = 1]
    ELSE [s EXCEPT !.frame_table[frame_index].next = s.fifo_tail,
                   !.frame_table[frame_index].prev = NULL,
                   !.frame_table[s.fifo_tail].prev = frame_index,
                   !.fifo_tail = frame_index,
                   !.frame_table[frame_index].f_list = 1]

fifo_insert(s, frame_index) ==
    IF s.fifo_tail = NULL
    THEN [s EXCEPT !.fifo_head = frame_index,
                   !.fifo_tail = frame_index,
                   !.frame_table[frame_index].f_list = 1]
    ELSE IF s.frame_table[frame_index].f_list = 1
    THEN s
    ELSE [s EXCEPT !.frame_table[frame_index].next = s.fifo_tail,
                   !.frame_table[frame_index].prev = NULL,
                   !.frame_table[s.fifo_tail].prev = frame_index,
                   !.fifo_tail = frame_index,
                   !.frame_table[frame_index].f_list = 1]

\* fifo_remove that takes the node at the tail (the newest) instead.
fifo_remove_newest(s) ==
    LET old == s.fifo_tail
        new == s.frame_table[old].next
    IN  IF s.fifo_head = NULL
        THEN [s |-> s, ret |-> 0 - 1]
        ELSE IF s.fifo_head = s.fifo_tail
        THEN [s |-> [s EXCEPT !.frame_table[old].f_list = 0,
                              !.fifo_head = NULL,
                              !.fifo_tail = NULL],
              ret |-> old]
        ELSE [s |-> [s EXCEPT !.frame_table[old].f_list = 0,
                              !.fifo_tail = new,
                              !.frame_table[new].prev = NULL],
              ret |-> old]

\* fifo_remove that leaves the next pointer of the new head on the node it
\* has removed.
fifo_remove_linked(s) ==
    LET old == s.fifo_head
        new == s.frame_table[old].prev
    IN  IF s.fifo_head = NULL
        THEN [s |-> s, ret |-> 0 - 1]
        ELSE IF s.fifo_head = s.fifo_tail
        THEN [s |-> [s EXCEPT !.frame_table[old].f_list = 0,
                              !.fifo_head = NULL,
                              !.fifo_tail = NULL],
              ret |-> old]
        ELSE [s |-> [s EXCEPT !.frame_table[old].f_list = 0,
                              !.fifo_head = new],
              ret |-> old]

\* fifo_remove: [s, ret], ret the frame index of the old head or -1.
fifo_remove(s) ==
    LET old == s.fifo_head
        new == s.frame_table[old].prev
    IN  IF s.fifo_head = NULL
        THEN [s |-> s, ret |-> 0 - 1]
        ELSE IF s.fifo_head = s.fifo_tail
        THEN [s |-> [s EXCEPT !.frame_table[old].f_list = 0,
                              !.fifo_head = NULL,
                              !.fifo_tail = NULL],
              ret |-> old]
        ELSE IF new = NULL
        THEN [s |-> Segv([s EXCEPT !.frame_table[old].f_list = 0, !.fifo_head = new]),
              ret |-> old]
        ELSE [s |-> [s EXCEPT !.frame_table[old].f_list = 0,
                              !.fifo_head = new,
                              !.frame_table[new].next = NULL],
              ret |-> old]

\* The scan loop of find_clean_frame: the last node counted before the loop
\* ends, a node being counted when its bits have a bit other than PROT_WRITE.
RECURSIVE scan_candidate(_, _, _, _)
scan_candidate(s, node, i, candidate) ==
    IF node # NULL /\ i < s.chance
    THEN IF BitClear(s.frame_table[node].bits, PROT_WRITE) # 0
         THEN scan_candidate(s, s.frame_table[node].next, i + 1, node)
         ELSE scan_candidate(s, s.frame_table[node].next, i, candidate)
    ELSE candidate

\* find_clean_frame, after the scan: unlink the candidate.  [s, ret].
unlink_candidate(s, node) ==
    LET nx == s.frame_table[node].next
        pv == s.frame_table[node].prev
    IN  IF node = NULL
        THEN [s |-> s, ret |-> 0 - 1]
        ELSE IF node = s.fifo_tail
        THEN IF nx # NULL
             THEN [s |-> [s EXCEPT !.fifo_tail = nx,
                                   !.frame_table[nx].prev = NULL,
                                   !.frame_table[node].f_list = 0],
                   ret |-> node]
             ELSE [s |-> [s EXCEPT !.fifo_tail = nx,
                                   !.fifo_head = nx,
                                   !.frame_table[node].f_list = 0],
                   ret |-> node]
        ELSE IF pv = NULL
        THEN [s |-> Segv(IF nx # NULL THEN [s EXCEPT !.frame_table[nx].prev = pv] ELSE s),
              ret |-> 0 - 1]
        ELSE IF nx # NULL
        THEN [s |-> [s EXCEPT !.frame_table[nx].prev = pv,
                              !.frame_table[pv].next = nx,
                              !.frame_table[node].f_list = 0],
              ret |-> node]
        ELSE [s |-> [s EXCEPT !.frame_table[pv].next = nx,
                              !.frame_table[node].f_list = 0],
              ret |-> node]

\* find_clean_frame: [s, ret], ret the frame unlinked from the list or -1.
find_clean_frame(s) ==
    IF s.fifo_tail = NULL
    THEN [s |-> Segv(s), ret |-> 0 - 1]
    ELSE Then2([s |-> [s EXCEPT !.chance = (args.nframes * 5) \div 6], ret |-> 0],
               LAMBDA s0, z :
               unlink_candidate(s0, scan_candidate(s0, s0.frame_table[s0.fifo_tail].next,
                                                   0, NULL)))

\* ------------------------------------------------------------------------
\* The 2FIFO lists.  next points towards the tail (newest).

\* sfo_remove(node, head): head names the list head passed by address,
\* "ff_head" or "sf_head".  [s, ret].
sfo_remove(s, node, head) ==
    LET nx == s.frame_table[node].next
        pv == s.frame_table[node].prev
    IN  IF s[head] = NULL
        THEN [s |-> Exit(s), ret |-> 0 - 1]
        ELSE IF node = s[head]
        THEN IF nx # NULL
             THEN [s |-> [s EXCEPT ![head] = nx, !.frame_table[nx].prev = NULL],
                   ret |-> node]
             ELSE [s |-> [s EXCEPT ![head] = nx], ret |-> node]
        ELSE IF node = s.sf_tail
        THEN IF pv = NULL
             THEN [s |-> Segv([s EXCEPT !.sf_tail = pv]), ret |-> 0 - 1]
             ELSE [s |-> [s EXCEPT !.sf_tail = pv, !.frame_table[pv].next = NULL],
                   ret |-> node]
        ELSE IF node = s.ff_tail
        THEN IF pv = NULL
             THEN [s |-> Segv([s EXCEPT !.ff_tail = pv]), ret |-> 0 - 1]
             ELSE [s |-> [s EXCEPT !.ff_tail = pv, !.frame_table[pv].next = NULL],
                   ret |-> node]
        ELSE IF pv = NULL
        THEN [s |-> Segv(s), ret |-> 0 - 1]
        ELSE IF nx = NULL
        THEN [s |-> Segv([s EXCEPT !.frame_table[pv].next = nx]), ret |-> 0 - 1]
        ELSE [s |-> [s EXCEPT !.frame_table[pv].next = nx,
                              !.frame_table[nx].prev = pv],
              ret |-> node]

\* sfo_insert, first part: append node at the tail of the first-chance list.
sfo_append(s, node) ==
    IF s.ff_head = NULL
    THEN [s EXCEPT !.ff_head = node,
                   !.ff_tail = node,
                   !.frame_table[node].next = NULL,
                   !.frame_table[node].prev = NULL,
                   !.frame_table[node].f_list = 1,
                   !.f_entries = @ + 1]
    ELSE IF s.ff_tail = NULL
    THEN Segv(s)
    ELSE [s EXCEPT !.frame_table[s.ff_tail].next = node,
                   !.frame_table[node].prev = s.ff_tail,
                   !.ff_tail = node,
                   !.frame_table[node].next = NULL,
                   !.frame_table[node].f_list = 1,
                   !.f_entries = @ + 1]

\* sfo_insert, the move of the first-chance head to the second-chance tail.
sfo_move(s) ==
    LET old == s.ff_head
        new == s.frame_table[old].next
    IN  IF s.sf_head = NULL
        THEN IF new = NULL
             THEN Segv([s EXCEPT !.sf_head = old, !.sf_tail = old, !.ff_head = new])
             ELSE [s EXCEPT !.sf_head = old,
                            !.sf_tail = old,
                            !.ff_head = new,
                            !.frame_table[new].prev = NULL,
                            !.frame_table[old].next = NULL]
        ELSE Then2(sfo_remove(s, old, "ff_head"), LAMBDA r, z :
                   IF r.sf_tail = NULL
                   THEN Segv(r)
                   ELSE [r EXCEPT !.frame_table[r.sf_tail].next = old,
                                  !.frame_table[old].prev = r.sf_tail,
                                  !.frame_table[old].next = NULL,
                                  !.sf_tail = old])

\* sfo_strip that leaves the page-table bits of the moved page as they were.
sfo_strip_keep(s) ==
    [s EXCEPT !.frame_table[s.sf_tail].f_list = 2, !.s_entries = @ + 1]

\* sfo_insert, after the move: the moved node is marked as second-chance and
\* the page-table bits of the page it holds are stripped.
sfo_strip(s) ==
    Then([s EXCEPT !.frame_table[s.sf_tail].f_list = 2], LAMBDA s1 :
    Then(page_table_set_entry(s1, s1.frame_table[s1.sf_tail].page, s1.sf_tail, PROT_NONE),
         LAMBDA s2 :
         [s2 EXCEPT !.s_entries = @ + 1]))

\* sfo_insert, the eviction of the second-chance head when that list is over
\* its capacity.  The log records that this code was entered.
sfo_overflow(s) ==
    LET old == s.sf_head
        new == s.frame_table[old].next
    IN  Then(evict([s EXCEPT !.log = Append(@, [op |-> "sfo_overflow", frame |-> old])],
                   old),
             LAMBDA s1 :
             IF new = NULL
             THEN Segv([s1 EXCEPT !.frame_table[old].free = 0,
                                  !.frame_table[old].f_list = 0,
                                  !.sf_head = new])
             ELSE [s1 EXCEPT !.frame_table[old].free = 0,
                             !.frame_table[old].f_list = 0,
                             !.sf_head = new,
                             !.frame_table[new].prev = NULL,
                             !.s_entries = @ - 1])

sfo_insert(s, node) ==
    Then(sfo_append(s, node), LAMBDA s1 :
         IF s1.f_entries > FIRST_L
         THEN Then(sfo_move(s1), LAMBDA s2 :
              Then(sfo_strip(s2), LAMBDA s3 :
              Then(IF s3.s_entries > SECOND_L THEN sfo_overflow(s3) ELSE s3, LAMBDA s4 :
                   [s4 EXCEPT !.f_entries = @ - 1])))
         ELSE s1)

\* ------------------------------------------------------------------------
\* The handlers.

\* set_frame without the assignment to BITS.
set_frame_no_bits(s, page, frame_index, bits) ==
    [page_table_set_entry(s, page, frame_index, bits)
        EXCEPT !.frame_table[frame_index].page = page]

\* page_table_set_entry, PAGE and BITS at the end of a handler.
set_frame(s, page, frame_index, bits) ==
    [page_table_set_entry(s, page, frame_index, bits)
        EXCEPT !.frame_table[frame_index].page = page,
               !.frame_table[frame_index].bits = bits]

\* FREE(frame_index) = 1: the flag is 1 for a frame in use.
mark_used(s, frame_index) ==
    [s EXCEPT !.frame_table[frame_index].free = 1]

\* load without ++stats.disk_reads.
load_uncounted(s, page, frame_index) ==
    disk_read(s, page, frame_index)

\* disk_read and ++stats.disk_reads.
load(s, page, frame_index) ==
    [disk_read(s, page, frame_index) EXCEPT !.stats.disk_reads = @ + 1]

\* page_fault_handler_rand that loads the page whenever the fault is not a
\* write-upgrade: the branch for an entry with both bits is missing.
page_fault_handler_rand_two_way(s, page, rnd) ==
    LET frame == s.pt[page].frame
        bits == s.pt[page].bits
        found == find_free_frame(s)
        frame_index == IF found < 0 THEN rnd ELSE found
    IN  IF HasBit(bits, PROT_READ) /\ ~HasBit(bits, PROT_WRITE)
        THEN mark_used(set_frame(s, page, frame, BitOr(bits, PROT_WRITE)), frame)
        ELSE Then(IF found < 0 THEN evict(s, frame_index) ELSE s, LAMBDA s1 :
                  mark_used(set_frame(load(s1, page, frame_index), page, frame_index,
                                      BitOr(bits, PROT_READ)),
                            frame_index))

\* rnd is the value of (int) lrand48() % args.nframes.
page_fault_handler_rand(s, page, rnd) ==
    LET frame == s.pt[page].frame
        bits == s.pt[page].bits
        found == find_free_frame(s)
        frame_index == IF found < 0 THEN rnd ELSE found
    IN  IF bits = 0
        THEN Then(IF found < 0 THEN evict(s, frame_index) ELSE s, LAMBDA s1 :
                  mark_used(set_frame(load(s1, page, frame_index), page, frame_index,
                                      BitOr(bits, PROT_READ)),
                            frame_index))
        ELSE IF HasBit(bits, PROT_READ) /\ ~HasBit(bits, PROT_WRITE)
        THEN mark_used(set_frame(s, page, frame, BitOr(bits, PROT_WRITE)), frame)
        ELSE s

\* install_fifo without page_table_set_entry.
install_fifo_no_entry(s, page, frame_index, bits) ==
    fifo_insert(mark_used([s EXCEPT !.frame_table[frame_index].page = page,
                                    !.frame_table[frame_index].bits = bits],
                          frame_index),
                frame_index)

\* The common end of the fifo and custom handlers once frame_index is known.
install_fifo(s, page, frame_index, bits) ==
    fifo_insert(mark_used(set_frame(s, page, frame_index, bits), frame_index),
                frame_index)

page_fault_handler_fifo(s, page) ==
    LET frame == s.pt[page].frame
        bits == s.pt[page].bits
        found == find_free_frame(s)
    IN  IF bits = 0
        THEN IF found < 0
             THEN Then2(fifo_remove(s), LAMBDA s1, frame_index :
                        IF frame_index < 0
                        THEN s1
                        ELSE Then(evict(s1, frame_index), LAMBDA s2 :
                                  install_fifo(load(s2, page, frame_index), page,
                                               frame_index, BitOr(bits, PROT_READ))))
             ELSE install_fifo(load(s, page, found), page, found, BitOr(bits, PROT_READ))
        ELSE IF HasBit(bits, PROT_READ) /\ ~HasBit(bits, PROT_WRITE)
        THEN install_fifo(s, page, frame, BitOr(bits, PROT_WRITE))
        ELSE s

\* The victim of the custom policy: find_clean_frame, else fifo_remove.
custom_victim(s) ==
    LET clean == find_clean_frame(s)
    IN  IF clean.s.halt = "run" /\ clean.ret < 0
        THEN fifo_remove(clean.s)
        ELSE clean

page_fault_handler_custom(s, page) ==
    LET frame == s.pt[page].frame
        bits == s.pt[page].bits
        found == find_free_frame(s)
    IN  IF bits = 0
        THEN IF found < 0
             THEN Then2(custom_victim(s), LAMBDA s1, frame_index :
                        IF frame_index < 0
                        THEN s1
                        ELSE Then(evict(s1, frame_index), LAMBDA s2 :
                                  install_fifo(load(s2, page, frame_index), page,
                                               frame_index, BitOr(bits, PROT_READ))))
             ELSE install_fifo(load(s, page, found), page, found, BitOr(bits, PROT_READ))
        ELSE IF HasBit(bits, PROT_READ) /\ ~HasBit(bits, PROT_WRITE)
        THEN install_fifo(s, page, frame, BitOr(bits, PROT_WRITE))
        ELSE s

\* The end of page_fault_handler_2fifo: the entry is installed unless the
\* frame is in the second-chance list.
finish_2fifo(s, page, frame_index, bits) ==
    mark_used(IF s.frame_table[frame_index].f_list # 2
              THEN set_frame(s, page, frame_index, bits)
              ELSE s,
              frame_index)

\* promote_2fifo that gives the page PROT_READ, whatever bits the frame
\* table kept.
promote_2fifo_read_only(s, page, frame) ==
    Then2(sfo_remove(s, frame, "sf_head"), LAMBDA s1, z :
    Then(sfo_insert([s1 EXCEPT !.s_entries = @ - 1], frame), LAMBDA s2 :
         finish_2fifo([s2 EXCEPT !.frame_table[frame].f_list = 1], page, frame,
                      PROT_READ)))

\* page_fault_handler_2fifo, the page is in the second-chance list: back to
\* the first-chance list, with the bits the frame table kept.
promote_2fifo(s, page, frame) ==
    Then2(sfo_remove(s, frame, "sf_head"), LAMBDA s1, z :
    Then(sfo_insert([s1 EXCEPT !.s_entries = @ - 1], frame), LAMBDA s2 :
         finish_2fifo([s2 EXCEPT !.frame_table[frame].f_list = 1], page, frame,
                      s2.frame_table[frame].bits)))

\* victim_2fifo without s_entries--.
victim_2fifo_no_decrement(s) ==
    IF s.sf_head = NULL
    THEN Then2(sfo_remove(s, s.ff_head, "ff_head"), LAMBDA s1, frame_index :
               [s |-> [s1 EXCEPT !.f_entries = @ - 1], ret |-> frame_index])
    ELSE Then2(sfo_remove(s, s.sf_head, "sf_head"), LAMBDA s1, frame_index :
               [s |-> s1, ret |-> frame_index])

\* page_fault_handler_2fifo, the victim when no frame is free: the head of
\* the second-chance list, or of the first-chance list if that is empty.
victim_2fifo(s) ==
    IF s.sf_head = NULL
    THEN Then2(sfo_remove(s, s.ff_head, "ff_head"), LAMBDA s1, frame_index :
               [s |-> [s1 EXCEPT !.f_entries = @ - 1], ret |-> frame_index])
    ELSE Then2(sfo_remove(s, s.sf_head, "sf_head"), LAMBDA s1, frame_index :
               [s |-> [s1 EXCEPT !.s_entries = @ - 1], ret |-> frame_index])

\* page_fault_handler_2fifo, a new node: insert the frame and read the page.
load_2fifo(s, page, frame_index, bits) ==
    Then(sfo_insert([s EXCEPT !.frame_table[frame_index].page = page], frame_index),
         LAMBDA s1 :
         finish_2fifo(load([s1 EXCEPT !.frame_table[frame_index].f_list = 1],
                           page, frame_index),
                      page, frame_index, bits))

page_fault_handler_2fifo(s, page) ==
    LET frame == s.pt[page].frame
        bits == s.pt[page].bits
        found == find_free_frame(s)
    IN  IF bits = PROT_NONE
        THEN IF page = s.frame_table[frame].page /\ s.frame_table[frame].f_list = 2
             THEN promote_2fifo(s, page, frame)
             ELSE IF page = s.frame_table[frame].page /\ s.frame_table[frame].f_list = 1
             THEN Exit(s)
             ELSE IF found = 0 - 1
             THEN Then2(victim_2fifo(s), LAMBDA s1, frame_index :
                        IF frame_index = 0 - 1
                        THEN s1
                        ELSE Then(evict(s1, frame_index), LAMBDA s2 :
                                  load_2fifo(s2, page, frame_index,
                                             BitOr(bits, PROT_READ))))
             ELSE load_2fifo(s, page, found, BitOr(bits, PROT_READ))
        ELSE IF HasBit(bits, PROT_READ) /\ ~HasBit(bits, PROT_WRITE)
        THEN finish_2fifo(s, page, frame, BitOr(bits, PROT_WRITE))
        ELSE s

\* page_fault_handler that counts the fault only where a handler acts on it.
page_fault_handler_uncounted(s, page, rnd) ==
    Then(IF HasBit(s.pt[page].bits, PROT_READ) /\ HasBit(s.pt[page].bits, PROT_WRITE)
         THEN s
         ELSE [s EXCEPT !.stats.page_faults = @ + 1],
         LAMBDA s1 :
         CASE fault_policy = "RAND" -> page_fault_handler_rand(s1, page, rnd)
           [] fault_policy = "FIFO" -> page_fault_handler_fifo(s1, page)
           [] fault_policy = "TWO_FIFO" -> page_fault_handler_2fifo(s1, page)
           [] fault_policy = "CUSTOM" -> page_fault_handler_custom(s1, page))

\* page_fault_handler: count the fault, then the handler of the policy.
page_fault_handler(s, page, rnd) ==
    Then([s EXCEPT !.stats.page_faults = @ + 1], LAMBDA s1 :
         CASE fault_policy = "RAND" -> page_fault_handler_rand(s1, page, rnd)
           [] fault_policy = "FIFO" -> page_fault_handler_fifo(s1, page)
           [] fault_policy = "TWO_FIFO" -> page_fault_handler_2fifo(s1, page)
           [] fault_policy = "CUSTOM" -> page_fault_handler_custom(s1, page))

\* ------------------------------------------------------------------------
\* main: the list capacities, the zeroed frame table and statistics, the
\* fresh page table, and chance.  A page never mapped has no protection; the
\* frame of its entry is taken as 0 (any frame in range gives the same runs:
\* the handlers read it only to compare PAGE(frame) with the page).

\* int arithmetic.  A sum out of range wraps; int_div truncates towards zero.
INT_MAX == 2147483647
int_add(a, b) ==
    IF a > 0 /\ b > INT_MAX - a
    THEN (a - INT_MAX - 1) + (b - INT_MAX - 1)
    ELSE IF a < 0 /\ b < (0 - INT_MAX - 1) - a
    THEN (a + INT_MAX + 1) + (b + INT_MAX + 1)
    ELSE a + b
int_div(a, b) == IF a >= 0 THEN a \div b ELSE 0 - ((0 - a) \div b)

\* The outcomes of args.nframes * 3/4.  A product out of range is undefined:
\* the build either wraps it before it divides, or keeps it in a wider
\* register and divides the exact product.
three_quarters(nframes) ==
    IF nframes <= INT_MAX \div 3
    THEN {(nframes * 3) \div 4}
    ELSE {int_div(int_add(int_add(nframes, nframes), nframes), 4),
          3 * (nframes \div 4) + (3 * (nframes % 4)) \div 4}

\* FIRST_L for the outcome quotient of args.nframes * 3/4.
first_of(nframes, quotient) ==
    IF nframes < 5
    THEN nframes - 1
    ELSE IF nframes % 4 # 0 THEN quotient + 1 ELSE quotient

\* The values main may give FIRST_L, and the value it gives SECOND_L.
first_l(nframes) == {first_of(nframes, quotient) : quotient \in three_quarters(nframes)}

second_l(nframes) ==
    IF nframes < 5 THEN 1 ELSE (nframes * 1) \div 4

\* The state main leaves for a command line whose npages, nframes and policy
\* are drawn from the three sets.  No access is in progress.
NoAccess == [page |-> NULL, write |-> FALSE, faults |-> 0]

Boot(npages, nframes, policies) ==
    /\ args \in [npages : npages, nframes : nframes]
    /\ fault_policy \in policies
    /\ FIRST_L \in first_l(args.nframes)
    /\ SECOND_L = second_l(args.nframes)
    /\ frame_table = [f \in Frames |->
                        [page |-> 0, bits |-> 0, free |-> 0, f_list |-> 0,
                         next |-> NULL, prev |-> NULL]]
    /\ pt = [p \in Pages |-> [frame |-> 0, bits |-> PROT_NONE]]
    /\ stats = [page_faults |-> 0, disk_reads |-> 0, disk_writes |-> 0, evictions |-> 0]
    /\ fifo_head = NULL /\ fifo_tail = NULL
    /\ ff_head = NULL /\ ff_tail = NULL
    /\ sf_head = NULL /\ sf_tail = NULL
    /\ f_entries = 0 /\ s_entries = 0
    /\ chance = args.nframes \div 3
    /\ halt = "run"
    /\ log = <<>>
    /\ fault = [page |-> NULL, frame |-> 0, bits |-> PROT_NONE]
    /\ loaded = [p \in Pages |-> 0]
    /\ disk = [p \in Pages |-> <<p, 0>>]
    /\ physmem = [f \in Frames |-> <<NULL, 0>>]
    /\ flat = [p \in Pages |-> <<p, 0>>]
    /\ access = NoAccess
    /\ golden = 0

Init == Boot({NPages}, 1 .. MaxFrames, Policies)

\* ------------------------------------------------------------------------
\* One call of the dispatcher by the page table.

\* The globals after a call of the dispatcher that returned s.
Returned(s) ==
    /\ frame_table' = s.frame_table
    /\ pt' = s.pt
    /\ stats' = s.stats
    /\ fifo_head' = s.fifo_head /\ fifo_tail' = s.fifo_tail
    /\ ff_head' = s.ff_head /\ ff_tail' = s.ff_tail
    /\ sf_head' = s.sf_head /\ sf_tail' = s.sf_tail
    /\ f_entries' = s.f_entries /\ s_entries' = s.s_entries
    /\ chance' = s.chance
    /\ halt' = s.halt
    /\ disk' = s.disk
    /\ physmem' = s.physmem
    /\ UNCHANGED <<args, fault_policy, FIRST_L, SECOND_L>>

\* The record of the fault for page that returned s.
Recorded(s, page) ==
    /\ log' = s.log
    /\ fault' = [page |-> page, frame |-> pt[page].frame, bits |-> pt[page].bits]
    /\ loaded' = [p \in Pages |->
                    IF \E i \in DOMAIN s.log :
                          s.log[i].op = "disk_read" /\ s.log[i].page = p
                    THEN s.stats.disk_reads
                    ELSE loaded[p]]

Dispatch(page, rnd) ==
    \E s \in {page_fault_handler(Globals, page, rnd)} :
        /\ Returned(s)
        /\ Recorded(s, page)
        /\ UNCHANGED <<flat, access, golden>>

Rnd == IF fault_policy = "RAND" THEN Frames ELSE {0}

\* A fault the page table raises: the access lacks a bit of the entry.
Fault(page, rnd) ==
    /\ halt = "run"
    /\ stats.page_faults < MaxFaults
    /\ ~(HasBit(pt[page].bits, PROT_READ) /\ HasBit(pt[page].bits, PROT_WRITE))
    /\ Dispatch(page, rnd)

\* The dispatcher entered for a page that has both bits.
FatalFault(page) ==
    /\ halt = "run"
    /\ stats.page_faults < MaxFaults
    /\ HasBit(pt[page].bits, PROT_READ) /\ HasBit(pt[page].bits, PROT_WRITE)
    /\ Dispatch(page, 0)

Next ==
    \E page \in Pages :
        \/ \E rnd \in Rnd : Fault(page, rnd)
        \/ FatalFault(page)

Spec == Init /\ [][Next]_vars

\* ------------------------------------------------------------------------
\* The program that runs over the virtual memory (main.c:216-222): a sequence
\* of read and write accesses to pages.  The page table raises a fault when
\* the entry of the page lacks the bit the access needs, and the access is
\* retried when the handler returns; an access that is allowed reads the frame
\* of the entry or stores the next version of the page's content into it.
\* These runs keep no record of their faults: log, fault and loaded stay as
\* Boot left them.

\* The bound on the number of stores to one page.
MaxWrites == 1

Allowed(bits, write) == HasBit(bits, IF write THEN PROT_WRITE ELSE PROT_READ)

\* golden counts the accesses completed while the run is write 0, write 1,
\* write 2 and nothing else; it is NULL once the program has begun any other
\* access.  GoldenAfter is its value when the access completes, GoldenDuring
\* its value while the access is retried.
GoldenAfter(page, write) ==
    IF golden \in 0 .. 2 /\ write /\ page = golden THEN golden + 1 ELSE NULL

GoldenDuring(page, write) ==
    IF golden \in 0 .. 2 /\ write /\ page = golden THEN golden ELSE NULL

\* The access is allowed by the entry: it is carried out in the state s.
Complete(s, page, write) ==
    /\ Returned(IF write
                THEN [s EXCEPT !.physmem[s.pt[page].frame] = <<page, flat[page][2] + 1>>]
                ELSE s)
    /\ flat' = IF write THEN [flat EXCEPT ![page] = <<page, flat[page][2] + 1>>] ELSE flat
    /\ golden' = GoldenAfter(page, write)
    /\ access' = NoAccess
    /\ UNCHANGED <<log, fault, loaded>>

\* The handler has returned s after the n-th fault of the access: retry.
Retry(s, page, write, n) ==
    IF s.halt = "run" /\ Allowed(s.pt[page].bits, write)
    THEN Complete(s, page, write)
    ELSE /\ Returned(s)
         /\ access' = [page |-> page, write |-> write, faults |-> n]
         /\ golden' = GoldenDuring(page, write)
         /\ UNCHANGED <<flat, log, fault, loaded>>

\* An access the entry allows: no fault.
Hit(page, write) ==
    /\ halt = "run"
    /\ access = NoAccess
    /\ Allowed(pt[page].bits, write)
    /\ write => flat[page][2] < MaxWrites
    /\ physmem' = IF write
                  THEN [physmem EXCEPT ![pt[page].frame] = <<page, flat[page][2] + 1>>]
                  ELSE physmem
    /\ flat' = IF write THEN [flat EXCEPT ![page] = <<page, flat[page][2] + 1>>] ELSE flat
    /\ golden' = GoldenAfter(page, write)
    /\ UNCHANGED <<args, fault_policy, FIRST_L, SECOND_L, frame_table, pt, stats,
                   fifo_head, fifo_tail, ff_head, ff_tail, sf_head, sf_tail,
                   f_entries, s_entries, chance, halt, log, fault, loaded,
                   disk, access>>

\* An access the entry does not allow: the first fault of the access.
Miss(page, write, rnd) ==
    /\ halt = "run"
    /\ access = NoAccess
    /\ ~Allowed(pt[page].bits, write)
    /\ write => flat[page][2] < MaxWrites
    /\ stats.page_faults < MaxFaults
    /\ \E s \in {page_fault_handler(Globals, page, rnd)} : Retry(s, page, write, 1)

\* The access in progress was not allowed when it was retried: it faults again.
Refault(rnd) ==
    /\ halt = "run"
    /\ access # NoAccess
    /\ stats.page_faults < MaxFaults
    /\ \E s \in {page_fault_handler(Globals, access.page, rnd)} :
            Retry(s, access.page, access.write, access.faults + 1)

RunInit == Boot(3 .. NPages, 1 .. MaxFrames, Policies)

RunNext ==
    \/ \E page \in Pages, write \in BOOLEAN : Hit(page, write)
    \/ \E page \in Pages, write \in BOOLEAN, rnd \in Rnd : Miss(page, write, rnd)
    \/ \E rnd \in Rnd : Refault(rnd)

RunSpec == RunInit /\ [][RunNext]_vars

\* ------------------------------------------------------------------------
\* The start of main alone (main.c:149-173), for frame counts up to INT_MAX:
\* the arguments are parsed, the globals are still zero and nothing is
\* allocated; Capacities is the computation of FIRST_L and SECOND_L.

\* The bound on the small frame counts tried.
MaxStartFrames == 32

\* The frame counts tried: the small ones, the two around the largest whose
\* triple is an int, and the largest int.
StartFrames ==
    (1 .. MaxStartFrames) \cup {INT_MAX \div 3, INT_MAX \div 3 + 1, INT_MAX}

StartInit ==
    /\ args \in [npages : {NPages}, nframes : StartFrames]
    /\ fault_policy \in Policies
    /\ FIRST_L = 0 /\ SECOND_L = 0
    /\ frame_table = <<>> /\ pt = <<>>
    /\ stats = [page_faults |-> 0, disk_reads |-> 0, disk_writes |-> 0, evictions |-> 0]
    /\ fifo_head = NULL /\ fifo_tail = NULL
    /\ ff_head = NULL /\ ff_tail = NULL
    /\ sf_head = NULL /\ sf_tail = NULL
    /\ f_entries = 0 /\ s_entries = 0
    /\ chance = 0
    /\ halt = "run"
    /\ log = <<>>
    /\ fault = [page |-> NULL, frame |-> 0, bits |-> PROT_NONE]
    /\ loaded = <<>> /\ disk = <<>> /\ physmem = <<>> /\ flat = <<>>
    /\ access = NoAccess
    /\ golden = 0

Capacities ==
    /\ SECOND_L = 0
    /\ FIRST_L' \in first_l(args.nframes)
    /\ SECOND_L' = second_l(args.nframes)
    /\ UNCHANGED <<args, fault_policy, frame_table, pt, stats, fifo_head, fifo_tail,
                   ff_head, ff_tail, sf_head, sf_tail, f_entries, s_entries,
                   chance, halt, log, fault, loaded, disk, physmem, flat, access,
                   golden>>

StartNext == Capacities

StartSpec == StartInit /\ [][StartNext]_vars

\* ------------------------------------------------------------------------
\* The custom policy with a frame table long enough for the scan of
\* find_clean_frame to stop before the oldest node (nframes * 5/6 is less
\* than nframes - 1 from nframes = 7 on), under a program that touches the
\* pages in increasing order, each once, and writes to any of those mapped.

\* The number of frames; there is one page more.
LargeFrames == 7

LargeInit == Boot({LargeFrames + 1}, {LargeFrames}, {"CUSTOM"})

\* The first touch of the lowest page not touched yet.
LargeLoad(page) ==
    /\ halt = "run"
    /\ loaded[page] = 0
    /\ \A p \in Pages : p < page => loaded[p] # 0
    /\ Dispatch(page, 0)

\* The write-upgrade of a mapped page.
LargeUpgrade(page) ==
    /\ halt = "run"
    /\ pt[page].bits = PROT_READ
    /\ Dispatch(page, 0)

LargeNext ==
    \E page \in Pages :
        \/ LargeLoad(page)
        \/ LargeUpgrade(page)

LargeSpec == LargeInit /\ [][LargeNext]_vars

\* ------------------------------------------------------------------------
\* What the claims speak of.

\* A step is a call of the dispatcher (every step of Next is one).
Dispatched == stats'.page_faults = stats.page_faults + 1

\* The positions of the calls of one kind in a log.
Calls(l, op) == {i \in DOMAIN l : l[i].op = op}

\* The pages whose entry has some protection.
Mapped == {p \in Pages : pt[p].bits # PROT_NONE}

\* Page p is still held by the frame of its entry, in the second-chance list.
InSecondChance(p) ==
    /\ frame_table[pt[p].frame].page = p
    /\ frame_table[pt[p].frame].f_list = 2

\* The nodes find_clean_frame may count: up to k nodes from node along next.
RECURSIVE nodes_from(_, _)
nodes_from(node, k) ==
    IF node = NULL \/ k = 0
    THEN {}
    ELSE {node} \cup nodes_from(frame_table[node].next, k - 1)

ScanWindow ==
    IF fifo_tail = NULL
    THEN {}
    ELSE nodes_from(frame_table[fifo_tail].next, (args.nframes * 5) \div 6)

\* ------------------------------------------------------------------------
\* C1: under each of the four policies, at every fault boundary no two
\* distinct pages whose entries have some protection have the same frame.
C1_NoDoubleBooking ==
    \A p, q \in Mapped : p # q => pt[p].frame # pt[q].frame

\* C1's case: the random policy has evicted, and two pages are mapped.
C1_Witness ==
    /\ fault_policy = "RAND"
    /\ stats.evictions >= 2
    /\ Cardinality(Mapped) >= 2

\* C2 as stated: under every policy, 2FIFO included, the bits the frame table
\* records for an occupied frame are the page-table bits of its page.
C2_NoDrift ==
    \A f \in Frames :
        frame_table[f].free = 1 =>
            frame_table[f].bits = pt[frame_table[f].page].bits

\* C2 as amended: the bits agree for every occupied frame except the frames
\* of the second-chance list of 2FIFO, whose pages have no protection in the
\* page table while the frame table keeps the bits they had when moved.
C2_NoDriftOutsideSecondChance ==
    \A f \in Frames :
        frame_table[f].free = 1 =>
            IF fault_policy = "TWO_FIFO" /\ frame_table[f].f_list = 2
            THEN pt[frame_table[f].page].bits = PROT_NONE
            ELSE frame_table[f].bits = pt[frame_table[f].page].bits

\* C2's case: a written page is in the second-chance list, another page is
\* writable in the first-chance list.
C2_Witness ==
    /\ fault_policy = "TWO_FIFO"
    /\ \E f \in Frames :
          /\ frame_table[f].free = 1 /\ frame_table[f].f_list = 2
          /\ HasBit(frame_table[f].bits, PROT_WRITE)
    /\ \E f \in Frames :
          /\ frame_table[f].free = 1 /\ frame_table[f].f_list = 1
          /\ HasBit(frame_table[f].bits, PROT_WRITE)

\* C3: every eviction writes the page the frame held exactly once, before the
\* read that reuses the frame, if the bits recorded for the frame have
\* PROT_WRITE, and writes nothing otherwise; the evicted page has no
\* protection on return, and evictions and disk_writes count each call.
C3_Step ==
    /\ \A i \in Calls(log', "evict") :
          LET e == log'[i]
              w == {j \in Calls(log', "disk_write") : log'[j].frame = e.frame}
              r == {k \in Calls(log', "disk_read") : log'[k].frame = e.frame}
          IN  /\ e.page = frame_table[e.frame].page
              /\ e.bits = frame_table[e.frame].bits
              /\ HasBit(e.bits, PROT_WRITE) =>
                    /\ Cardinality(w) = 1
                    /\ \A j \in w : log'[j].page = e.page
                    /\ r # {}
                    /\ \A j \in w, k \in r : j < k
              /\ ~HasBit(e.bits, PROT_WRITE) => w = {}
              /\ pt'[e.page].bits = PROT_NONE
    /\ \A j \in Calls(log', "disk_write") :
          \E i \in Calls(log', "evict") : log'[i].frame = log'[j].frame
    /\ stats'.evictions = stats.evictions + Cardinality(Calls(log', "evict"))
    /\ stats'.disk_writes = stats.disk_writes + Cardinality(Calls(log', "disk_write"))

C3_EvictionCorrectness == [][C3_Step]_vars

\* C3's case: the last fault evicted a frame whose bits had PROT_WRITE, and
\* an earlier one evicted without writing.
C3_Witness ==
    /\ \E i \in Calls(log, "evict") : HasBit(log[i].bits, PROT_WRITE)
    /\ stats.evictions > stats.disk_writes

\* C4: with nframes >= 2, a fault on a page with no protection that is not a
\* promotion from the second-chance list returns with the page mapped to a
\* frame in range, bits exactly PROT_READ in the page table and the frame
\* table, the frame used and holding the page, and one disk read, of the page.
C4_Step ==
    \A p \in Pages :
        (/\ Dispatched
         /\ fault'.page = p
         /\ args.nframes >= 2
         /\ pt[p].bits = PROT_NONE
         /\ ~(fault_policy = "TWO_FIFO" /\ InSecondChance(p)))
        => /\ halt' = "run"
           /\ pt'[p].frame \in Frames
           /\ pt'[p].bits = PROT_READ
           /\ frame_table'[pt'[p].frame].bits = PROT_READ
           /\ frame_table'[pt'[p].frame].free = 1
           /\ frame_table'[pt'[p].frame].page = p
           /\ stats'.disk_reads = stats.disk_reads + 1
           /\ Cardinality(Calls(log', "disk_read")) = 1
           /\ \A k \in Calls(log', "disk_read") :
                 log'[k].page = p /\ log'[k].frame = pt'[p].frame

C4_FirstTouchLoad == [][C4_Step]_vars

\* C4's case: the last fault loaded a page into a frame it had to evict.
C4_Witness ==
    /\ args.nframes >= 2
    /\ fault.page # NULL /\ fault.bits = PROT_NONE
    /\ Calls(log, "evict") # {}
    /\ \E k \in Calls(log, "disk_read") : log[k].page = fault.page

\* C5: a fault on a page whose bits are exactly PROT_READ sets the bits to
\* PROT_READ | PROT_WRITE in the page table and the frame table and changes
\* nothing else but page_faults.
C5_Step ==
    \A p \in Pages :
        (Dispatched /\ fault'.page = p /\ pt[p].bits = PROT_READ)
        => /\ pt' = [pt EXCEPT ![p].bits = PROT_READ + PROT_WRITE]
           /\ frame_table' =
                 [frame_table EXCEPT ![pt[p].frame].bits = PROT_READ + PROT_WRITE]
           /\ frame_table[pt[p].frame].page = p
           /\ stats' = [stats EXCEPT !.page_faults = @ + 1]
           /\ log' = <<>>
           /\ UNCHANGED <<fifo_head, fifo_tail, ff_head, ff_tail, sf_head, sf_tail,
                          f_entries, s_entries>>

C5_WriteUpgrade == [][C5_Step]_vars

\* C5's case: the last fault upgraded a page, with every frame in a list.
C5_Witness ==
    /\ fault.page # NULL /\ fault.bits = PROT_READ
    /\ pt[fault.page].bits = PROT_READ + PROT_WRITE
    /\ fault_policy # "RAND"
    /\ stats.evictions >= 1

\* C6: every call of the dispatcher adds one to page_faults, whatever the
\* branch taken, and no counter ever decreases.
C6_Step ==
    /\ stats'.page_faults = stats.page_faults + 1
    /\ stats'.disk_reads >= stats.disk_reads
    /\ stats'.disk_writes >= stats.disk_writes
    /\ stats'.evictions >= stats.evictions

C6_CountersMonotone == [][C6_Step]_vars

\* C6's case: the last fault was on a page with both bits, after a load, an
\* upgrade and an eviction.
C6_Witness ==
    /\ fault.page # NULL
    /\ fault.bits = PROT_READ + PROT_WRITE
    /\ stats.page_faults >= 4
    /\ stats.evictions >= 1

\* C7: for every nframes >= 1 and every policy, a fault on a page with no
\* protection dereferences no null pointer and returns with the page mapped
\* to a frame in range.
C7_ValidFrame ==
    (fault.page # NULL /\ fault.bits = PROT_NONE)
    => /\ halt = "run"
       /\ pt[fault.page].frame \in Frames
       /\ pt[fault.page].bits # PROT_NONE

\* C8: under FIFO every eviction takes the frame whose page was read in
\* earliest among the pages in frames; with two frames, the third load
\* evicts the page loaded first.
C8_Step ==
    fault_policy = "FIFO" =>
        \A i \in Calls(log', "evict") :
            /\ log'[i].page = frame_table[log'[i].frame].page
            /\ frame_table[log'[i].frame].free = 1
            /\ \A g \in Frames :
                  frame_table[g].free = 1 =>
                      loaded[log'[i].page] <= loaded[frame_table[g].page]
            /\ (args.nframes = 2 /\ stats.disk_reads = 2) => loaded[log'[i].page] = 1

C8_FifoOrder == [][C8_Step]_vars

\* C8's case: FIFO has evicted twice, the last fault evicted, and a page was
\* written back, so there were upgrades in between.
C8_Witness ==
    /\ fault_policy = "FIFO"
    /\ args.nframes >= 2
    /\ stats.evictions >= 2
    /\ stats.disk_writes >= 1
    /\ Calls(log, "evict") # {}

\* C9: under the custom policy with every frame used, if some frame in the
\* scan window lacks PROT_WRITE, the victim lacks PROT_WRITE and its eviction
\* writes nothing to disk.
C9_Step ==
    (/\ fault_policy = "CUSTOM"
     /\ \A f \in Frames : frame_table[f].free = 1
     /\ \E n \in ScanWindow : ~HasBit(frame_table[n].bits, PROT_WRITE))
    => /\ \A i \in Calls(log', "evict") : ~HasBit(log'[i].bits, PROT_WRITE)
       /\ Calls(log', "disk_write") = {}

C9_CleanPreference == [][C9_Step]_vars

\* C10 as stated: under 2FIFO with three frames, after four distinct pages
\* were read in with no other fault, the page read in first is in the
\* second-chance list with PROT_READ stripped.
C10_FirstPageAfterFour ==
    (/\ fault_policy = "TWO_FIFO" /\ args.nframes = 3
     /\ stats.page_faults = 4 /\ stats.disk_reads = 4)
    => \A p \in Pages :
          loaded[p] = 1 => InSecondChance(p) /\ ~HasBit(pt[p].bits, PROT_READ)

\* C10 as amended: under 2FIFO with three frames, after three distinct pages
\* were read in with no other fault, the page read in first is at the head of
\* the second-chance list with PROT_READ stripped, and a fault on it moves it
\* to the tail of the first-chance list with no disk read.  After a fourth
\* distinct page was read in, the first page is in no frame, the second page
\* is the one in the second-chance list, and a fault on the first page reads
\* it from disk.
C10_Step ==
    /\ (/\ fault_policy = "TWO_FIFO" /\ args.nframes = 3
        /\ stats.page_faults = 3 /\ stats.disk_reads = 3)
       => /\ \E p \in Pages : loaded[p] = 1
          /\ \A p \in Pages :
                loaded[p] = 1 =>
                    /\ InSecondChance(p)
                    /\ sf_head = pt[p].frame
                    /\ ~HasBit(pt[p].bits, PROT_READ)
                    /\ (Dispatched /\ fault'.page = p) =>
                          /\ stats'.disk_reads = stats.disk_reads
                          /\ log' = <<>>
                          /\ pt'[p].frame = pt[p].frame
                          /\ HasBit(pt'[p].bits, PROT_READ)
                          /\ frame_table'[pt[p].frame].f_list = 1
                          /\ ff_tail' = pt[p].frame
                          /\ sf_head' # pt[p].frame
    /\ (/\ fault_policy = "TWO_FIFO" /\ args.nframes = 3
        /\ stats.page_faults = 4 /\ stats.disk_reads = 4)
       => /\ \A p \in Pages :
                loaded[p] = 1 =>
                    /\ frame_table[pt[p].frame].page # p
                    /\ (Dispatched /\ fault'.page = p) =>
                          stats'.disk_reads = stats.disk_reads + 1
          /\ \A p \in Pages :
                loaded[p] = 2 => InSecondChance(p) /\ ~HasBit(pt[p].bits, PROT_READ)

C10_PromotionScenario == [][C10_Step]_vars

\* C10's case: the first page was promoted by the fourth fault.
C10_Witness ==
    /\ fault_policy = "TWO_FIFO" /\ args.nframes = 3
    /\ stats.page_faults = 4 /\ stats.disk_reads = 3
    /\ fault.page # NULL /\ loaded[fault.page] = 1
    /\ frame_table[pt[fault.page].frame].f_list = 1
    /\ ff_tail = pt[fault.page].frame
    /\ HasBit(pt[fault.page].bits, PROT_READ)

\* ------------------------------------------------------------------------
\* The run of C11: three pages, two frames, the fifo policy, and the accesses
\* write 0, write 1, write 2 all completed.
GoldenRun ==
    /\ fault_policy = "FIFO"
    /\ args.npages = 3 /\ args.nframes = 2
    /\ golden = 3

\* C11 as stated: the golden run ends with page_faults = 3, disk_reads = 3,
\* evictions = 1 and disk_writes = 1.
C11_GoldenThreeFaults ==
    GoldenRun => stats = [page_faults |-> 3, disk_reads |-> 3,
                          disk_writes |-> 1, evictions |-> 1]

\* C11 amended: with npages = 3, nframes = 2 and the fifo policy, the write
\* accesses to page 0, then 1, then 2, each retried until it succeeds, end
\* with page_faults = 6 (a load and a write-upgrade per access),
\* disk_reads = 3, evictions = 1 and disk_writes = 1.
C11_GoldenSequence ==
    GoldenRun => stats = [page_faults |-> 6, disk_reads |-> 3,
                          disk_writes |-> 1, evictions |-> 1]

\* C11's case: the golden run is over, page 0 is out and its content on disk.
C11_Witness ==
    /\ GoldenRun
    /\ access = NoAccess
    /\ pt[0].bits = PROT_NONE
    /\ disk[0] = <<0, 1>>
    /\ HasBit(pt[2].bits, PROT_WRITE)
\* ------------------------------------------------------------------------
\* C12: under every policy, a fault dispatched for a page whose entry has
\* both PROT_READ and PROT_WRITE adds one to page_faults and changes nothing
\* else: the page table, the frame table, the lists and their counters,
\* disk_reads, disk_writes, evictions, the disk and the frames are as before.
C12_Step ==
    (/\ Dispatched
     /\ HasBit(pt[fault'.page].bits, PROT_READ)
     /\ HasBit(pt[fault'.page].bits, PROT_WRITE))
    => /\ stats' = [stats EXCEPT !.page_faults = @ + 1]
       /\ UNCHANGED <<pt, frame_table, fifo_head, fifo_tail, ff_head, ff_tail,
                      sf_head, sf_tail, f_entries, s_entries, chance, halt,
                      disk, physmem>>
       /\ log' = <<>>

C12_FatalFaultAbandoned == [][C12_Step]_vars

\* C12's case: the last fault was for a page that had both bits, with every
\* frame in use and an eviction behind.
C12_Witness ==
    /\ fault.page # NULL
    /\ fault.bits = PROT_READ + PROT_WRITE
    /\ stats.evictions >= 1
    /\ \A f \in Frames : frame_table[f].free = 1
    /\ halt = "run"
\* ------------------------------------------------------------------------
\* The lists as fifo_print and sfo_print walk them: the nodes from node along
\* next, at most k of them (a walk longer than the frame table has met a
\* node twice).
RECURSIVE walk(_, _)
walk(node, k) ==
    IF node = NULL \/ k = 0
    THEN <<>>
    ELSE <<node>> \o walk(frame_table[node].next, k - 1)

\* The fifo list from its tail (newest first); the first-chance and the
\* second-chance list from their heads (oldest first).
FifoList == walk(fifo_tail, args.nframes + 1)
FirstChance == walk(ff_head, args.nframes + 1)
SecondChance == walk(sf_head, args.nframes + 1)
PolicyLists == FifoList \o FirstChance \o SecondChance

NoRepeat(l) == \A i, j \in DOMAIN l : i # j => l[i] # l[j]
Members(l) == {l[i] : i \in DOMAIN l}
Occupied == {f \in Frames : frame_table[f].free = 1}

\* C13: under fifo, custom and 2fifo (nframes >= 2), at every fault boundary
\* each frame occurs at most once in the policy lists taken together, and the
\* frames in the lists are exactly the frames in use.
C13_ListMembership ==
    (\/ fault_policy \in {"FIFO", "CUSTOM"}
     \/ fault_policy = "TWO_FIFO" /\ args.nframes >= 2)
    => /\ NoRepeat(PolicyLists)
       /\ Members(PolicyLists) = Occupied

\* C13's case: custom has evicted twice, the second time a frame other than
\* the one fifo_head points to, and every frame is in its list.
C13_Witness ==
    /\ fault_policy = "CUSTOM"
    /\ args.nframes >= 2
    /\ stats.evictions >= 2
    /\ Occupied = Frames
    /\ Len(FifoList) = args.nframes
    /\ fifo_head # FifoList[Len(FifoList)]
\* ------------------------------------------------------------------------
\* C14: under every policy (2fifo with nframes >= 2), a fault that reads a
\* page in uses the lowest frame not in use when there is one, and evicts
\* only when every frame is in use; so evictions is 0 as long as no more than
\* nframes pages have been read in, and the k-th read (k <= nframes) is into
\* frame k - 1.
C14_Step ==
    (/\ Dispatched
     /\ fault_policy = "TWO_FIFO" => args.nframes >= 2)
    => /\ \A i \in Calls(log', "disk_read") :
            /\ Occupied # Frames =>
                  /\ log'[i].frame \in Frames \ Occupied
                  /\ \A f \in Frames \ Occupied : log'[i].frame <= f
                  /\ Calls(log', "evict") = {}
            /\ stats'.disk_reads <= args.nframes =>
                  log'[i].frame = stats'.disk_reads - 1
       /\ Calls(log', "evict") # {} => Occupied = Frames
       /\ stats'.disk_reads <= args.nframes => stats'.evictions = 0

C14_FreeFramePreferred == [][C14_Step]_vars

\* C14's case: with three frames, the third page read in went to frame 2 with
\* no eviction, and the fourth has evicted.
C14_Witness ==
    /\ args.nframes = 3
    /\ stats.disk_reads = 4
    /\ stats.evictions = 1
    /\ \E p \in Pages : loaded[p] = 3 /\ pt[p].frame = 2 /\ pt[p].bits # PROT_NONE
    /\ Calls(log, "evict") # {}
\* ------------------------------------------------------------------------
\* C15: under 2fifo with nframes >= 2, a fault on a page with no protection
\* whose frame still records the page and is in the second-chance list takes
\* the frame out of that list and puts it at the tail of the first-chance
\* list; disk_reads, disk_writes and evictions are unchanged, the page keeps
\* its frame, and its protection becomes the bits the frame table held
\* before the fault.
C15_Step ==
    (/\ Dispatched
     /\ fault_policy = "TWO_FIFO" /\ args.nframes >= 2
     /\ pt[fault'.page].bits = PROT_NONE
     /\ InSecondChance(fault'.page)
     /\ pt[fault'.page].frame \in Members(SecondChance))
    => /\ pt[fault'.page].frame \notin Members(SecondChance')
       /\ FirstChance' # <<>>
       /\ FirstChance'[Len(FirstChance')] = pt[fault'.page].frame
       /\ ff_tail' = pt[fault'.page].frame
       /\ frame_table'[pt[fault'.page].frame].f_list = 1
       /\ stats' = [stats EXCEPT !.page_faults = @ + 1]
       /\ pt'[fault'.page].frame = pt[fault'.page].frame
       /\ pt'[fault'.page].bits = frame_table[pt[fault'.page].frame].bits

C15_Promotion == [][C15_Step]_vars

\* C15's case: the last fault found its page, written before it was demoted,
\* in the second-chance list, and the page is back with both bits.
C15_Witness ==
    /\ fault_policy = "TWO_FIFO" /\ args.nframes >= 2
    /\ fault.page # NULL /\ fault.bits = PROT_NONE
    /\ loaded[fault.page] > 0
    /\ log = <<>>
    /\ pt[fault.page].bits = PROT_READ + PROT_WRITE
    /\ ff_tail = pt[fault.page].frame
    /\ SecondChance # <<>>
\* ------------------------------------------------------------------------
\* The least k with k * b >= a, for a >= 0 and b > 0; and ceil(3 * n / 4),
\* from the quotient and the remainder of n by 4.
Ceiling(a, b) == (a + b - 1) \div b
CeilingThreeQuarters(n) == 3 * (n \div 4) + Ceiling(3 * (n % 4), 4)

\* C16: once main has computed the capacities, for every nframes >= 1: if
\* nframes < 5 then FIRST_L = nframes - 1 and SECOND_L = 1, otherwise
\* FIRST_L = ceil(3 * nframes / 4) and SECOND_L = floor(nframes / 4); and in
\* every case FIRST_L + SECOND_L = nframes.
C16_Capacities ==
    SECOND_L # 0 =>
        /\ args.nframes < 5 => FIRST_L = args.nframes - 1 /\ SECOND_L = 1
        /\ args.nframes >= 5 =>
              /\ FIRST_L = CeilingThreeQuarters(args.nframes)
              /\ SECOND_L = args.nframes \div 4
        /\ FIRST_L + SECOND_L = args.nframes

\* ------------------------------------------------------------------------
\* A fault of 2fifo that inserts a frame in the first-chance list while the
\* list is full: a load or a promotion (the entry had no protection), with
\* f_entries = FIRST_L when sfo_insert is called, which is so unless the
\* victim of the load was taken from the first-chance list.
InsertOverflows ==
    /\ Dispatched
    /\ fault_policy = "TWO_FIFO" /\ args.nframes >= 2
    /\ pt[fault'.page].bits = PROT_NONE
    /\ f_entries = FIRST_L
    /\ Calls(log', "evict") # {} => sf_head # NULL

\* C17: under 2fifo with nframes >= 2, whenever the insertion of a frame at
\* the tail of the first-chance list makes the list longer than FIRST_L,
\* exactly one frame, the head of the first-chance list, moves to the tail of
\* the second-chance list, and the entry of the page in that frame loses
\* PROT_READ and keeps its frame, so the next read of the page faults.
C17_Step ==
    InsertOverflows
    => /\ FirstChance' = Tail(FirstChance) \o <<pt'[fault'.page].frame>>
       /\ SecondChance' # <<>>
       /\ SecondChance'[Len(SecondChance')] = ff_head
       /\ sf_tail' = ff_head
       /\ Members(SecondChance') \ Members(SecondChance) = {ff_head}
       /\ frame_table'[ff_head].f_list = 2
       /\ frame_table'[ff_head].page = frame_table[ff_head].page
       /\ ~HasBit(pt'[frame_table[ff_head].page].bits, PROT_READ)
       /\ pt'[frame_table[ff_head].page].frame = ff_head
       /\ ~Allowed(pt'[frame_table[ff_head].page].bits, FALSE)

C17_Demotion == [][C17_Step]_vars

\* C17's case: with three frames, the load of a third page has moved the
\* first page, read and written before, to the second-chance list.
C17_Witness ==
    /\ fault_policy = "TWO_FIFO" /\ args.nframes = 3
    /\ stats.disk_reads = 3 /\ stats.evictions = 0
    /\ Len(FirstChance) = 2 /\ Len(SecondChance) = 1
    /\ fault.page # NULL /\ loaded[fault.page] = 3
    /\ frame_table[sf_head].bits = PROT_READ + PROT_WRITE
    /\ pt[frame_table[sf_head].page] = [frame |-> sf_head, bits |-> PROT_NONE]
\* ------------------------------------------------------------------------
\* fifo_insert called for any frame of the fifo list changes nothing, and no
\* frame is in the list twice.
InsertIdempotent ==
    /\ \A f \in Members(FifoList) : fifo_insert(Globals, f) = Globals
    /\ NoRepeat(FifoList)

\* C19: under fifo and custom, at every fault boundary fifo_insert for a frame
\* that is in the fifo list leaves the list as it is and no frame occurs twice
\* in the list; a write-upgrade fault, which calls fifo_insert for its frame,
\* leaves the list's contents and order unchanged.
C19_Step ==
    fault_policy \in {"FIFO", "CUSTOM"}
    => /\ InsertIdempotent
       /\ InsertIdempotent'
       /\ (Dispatched /\ pt[fault'.page].bits = PROT_READ)
          => /\ pt[fault'.page].frame \in Members(FifoList)
             /\ FifoList' = FifoList

C19_FifoInsertIdempotent == [][C19_Step]_vars

\* C19's case: under custom, after an eviction, the last fault was the
\* write-upgrade of a page whose frame is not the newest of the list.
C19_Witness ==
    /\ fault_policy = "CUSTOM"
    /\ stats.evictions >= 1
    /\ fault.page # NULL /\ fault.bits = PROT_READ
    /\ pt[fault.page].bits = PROT_READ + PROT_WRITE
    /\ Len(FifoList) >= 2
    /\ FifoList[1] # pt[fault.page].frame
\* ------------------------------------------------------------------------
\* C18: under custom with every frame in use and nframes >= 2, when every
\* frame of the scan window has PROT_WRITE, the fault that reads a page in
\* evicts the head of the fifo list: the frame whose page was read in
\* earliest.
C18_Step ==
    (/\ Dispatched
     /\ fault_policy = "CUSTOM" /\ args.nframes >= 2
     /\ Occupied = Frames
     /\ pt[fault'.page].bits = PROT_NONE
     /\ \A n \in ScanWindow : HasBit(frame_table[n].bits, PROT_WRITE))
    => /\ Calls(log', "evict") # {}
       /\ \A i \in Calls(log', "evict") :
            /\ log'[i].frame = FifoList[Len(FifoList)]
            /\ \A f \in Frames :
                  loaded[frame_table[log'[i].frame].page] <= loaded[frame_table[f].page]

C18_FallbackToHead == [][C18_Step]_vars
\* ------------------------------------------------------------------------
\* Where the content of page p is: in the frame of its entry while the entry
\* has PROT_READ or, under 2fifo, while the frame is kept in the second-chance
\* list; on the disk otherwise.
Content(p) ==
    IF HasBit(pt[p].bits, PROT_READ)
    THEN physmem[pt[p].frame]
    ELSE IF fault_policy = "TWO_FIFO" /\ InSecondChance(p)
    THEN physmem[pt[p].frame]
    ELSE disk[p]

\* C20: under every policy (2fifo with nframes >= 2), after any sequence of
\* read and write accesses, a page the program may read holds the content of
\* the last write to it (the disk's first content if it was never written),
\* and so does the place that keeps the content of a page it may not read:
\* the memory behaves like a flat memory of npages pages.
C20_NoLostWrites ==
    (fault_policy = "TWO_FIFO" => args.nframes >= 2)
    => \A p \in Pages :
          /\ Allowed(pt[p].bits, FALSE) => physmem[pt[p].frame] = flat[p]
          /\ Content(p) = flat[p]

\* C20's case: under 2fifo a page was written, demoted, evicted and written
\* back, and read in again: the program may read it and its content is the
\* one written.
C20_Witness ==
    /\ fault_policy = "TWO_FIFO" /\ args.nframes >= 2
    /\ stats.disk_writes >= 1
    /\ \E p \in Pages :
          /\ flat[p] = <<p, 1>>
          /\ disk[p] = flat[p]
          /\ HasBit(pt[p].bits, PROT_READ)
          /\ physmem[pt[p].frame] = flat[p]
\* ------------------------------------------------------------------------
\* C21: under every policy (2fifo with nframes >= 2), at every fault boundary
\* disk_reads - evictions is the number of frames in use (so at most
\* nframes), disk_writes <= evictions <= disk_reads, and
\* disk_reads <= page_faults.
C21_CounterRelations ==
    (fault_policy = "TWO_FIFO" => args.nframes >= 2)
    => /\ stats.disk_reads - stats.evictions = Cardinality(Occupied)
       /\ stats.disk_reads - stats.evictions <= args.nframes
       /\ stats.disk_writes <= stats.evictions
       /\ stats.evictions <= stats.disk_reads
       /\ stats.disk_reads <= stats.page_faults

\* C21's case: two evictions, one of them of a written page, and a fault
\* that read nothing in.
C21_Witness ==
    /\ stats.evictions = 2
    /\ stats.disk_writes = 1
    /\ stats.disk_reads = args.nframes + 2
    /\ stats.page_faults = stats.disk_reads + 1
    /\ Occupied = Frames
\* ------------------------------------------------------------------------
\* C22: under 2fifo with nframes >= 2, at every fault boundary the page of
\* every frame of the first-chance list has some protection in the page
\* table and the page of every frame of the second-chance list has none,
\* each entry naming its frame; and the handler never takes its exit(1)
\* branch (a fault on an unprotected page found in the first-chance list).
C22_TierProtection ==
    (fault_policy = "TWO_FIFO" /\ args.nframes >= 2)
    => /\ \A f \in Members(FirstChance) :
            /\ pt[frame_table[f].page].bits # PROT_NONE
            /\ pt[frame_table[f].page].frame = f
       /\ \A f \in Members(SecondChance) :
            /\ pt[frame_table[f].page].bits = PROT_NONE
            /\ pt[frame_table[f].page].frame = f
       /\ \A p \in Pages :
            ~(/\ pt[p].bits = PROT_NONE
              /\ frame_table[pt[p].frame].page = p
              /\ frame_table[pt[p].frame].f_list = 1)
       /\ halt # "exit"

\* C22's case: frames in both lists after an eviction and a promotion, the
\* promoted page written before.
C22_Witness ==
    /\ fault_policy = "TWO_FIFO" /\ args.nframes >= 2
    /\ stats.evictions >= 1
    /\ FirstChance # <<>> /\ SecondChance # <<>>
    /\ fault.page # NULL /\ fault.bits = PROT_NONE /\ log = <<>>
    /\ pt[fault.page].bits = PROT_READ + PROT_WRITE
    /\ loaded[frame_table[sf_head].page] > 0
\* ------------------------------------------------------------------------
\* C23: under 2fifo with nframes >= 2, at every fault boundary f_entries and
\* s_entries are the lengths of the first-chance and the second-chance list,
\* f_entries <= FIRST_L and s_entries <= SECOND_L; and no fault has entered
\* the code of sfo_insert that evicts the second-chance head because
\* s_entries exceeds SECOND_L, the only code that clears a frame's flag.
C23_Capacity ==
    (fault_policy = "TWO_FIFO" /\ args.nframes >= 2)
    => /\ f_entries = Len(FirstChance)
       /\ s_entries = Len(SecondChance)
       /\ f_entries <= FIRST_L
       /\ s_entries <= SECOND_L
       /\ Calls(log, "sfo_overflow") = {}
       /\ Cardinality(Occupied) = stats.disk_reads - stats.evictions

\* C23's case: both lists are full after two evictions, the last fault having
\* evicted the second-chance head and demoted the first-chance head.
C23_Witness ==
    /\ fault_policy = "TWO_FIFO" /\ args.nframes >= 2
    /\ f_entries = FIRST_L /\ s_entries = SECOND_L
    /\ stats.evictions >= 2
    /\ Calls(log, "evict") # {}
    /\ fault.page # NULL /\ ff_tail = pt[fault.page].frame
\* ------------------------------------------------------------------------
\* C24: under every policy (2fifo with nframes >= 2), when a fault is raised
\* exactly when an access lacks its bit and the access is retried when the
\* handler returns, no read access is still refused after one fault and no
\* write access after two: the only access ever left to retry is a write
\* after its first fault, and the page then has PROT_READ, so its next fault
\* is the write-upgrade.
C24_BoundedFaults ==
    ((fault_policy = "TWO_FIFO" => args.nframes >= 2) /\ access # NoAccess)
    => /\ access.write
       /\ access.faults = 1
       /\ HasBit(pt[access.page].bits, PROT_READ)
       /\ ~HasBit(pt[access.page].bits, PROT_WRITE)
       /\ halt = "run"

\* C24's case: under 2fifo, after an eviction, a write access has taken its
\* first fault and is about to take the second.
C24_Witness ==
    /\ fault_policy = "TWO_FIFO" /\ args.nframes >= 2
    /\ stats.evictions >= 1
    /\ access.page # NULL /\ access.write /\ access.faults = 1
    /\ pt[access.page].bits = PROT_READ
    /\ SecondChance # <<>>
\* ------------------------------------------------------------------------
\* The walk of the fifo list along next visits every frame in use once.
FifoCovers == NoRepeat(FifoList) /\ Members(FifoList) = Occupied

\* prev is the inverse of next along the walk, and the tail has no prev.
FifoLinked ==
    /\ FifoList # <<>> => frame_table[FifoList[1]].prev = NULL
    /\ \A i \in 1 .. (Len(FifoList) - 1) :
          frame_table[FifoList[i + 1]].prev = FifoList[i]

\* fifo_head is the last node of the walk.
FifoHeadLast == FifoList # <<>> => fifo_head = FifoList[Len(FifoList)]

\* C25: under custom with nframes >= 2, at every fault boundary the walk
\* along next from fifo_tail visits every frame in use exactly once, prev and
\* next are mutually inverse, and fifo_head is the last node of the walk
\* (the oldest frame).
C25_CustomWellFormed ==
    (fault_policy = "CUSTOM" /\ args.nframes >= 2)
    => FifoCovers /\ FifoLinked /\ FifoHeadLast
====
